---- MODULE Spec2Model ----
(***************************************************************************)
(* A state-machine model of src/src/main.c, the multi-threaded private     *)
(* network scanner: the probe thread (ping_worker), the subnet scan        *)
(* coordinator (subnet_worker), the subnet batch scheduler                 *)
(* (scan_subnets_parallel) and the campaign drivers called from main.      *)
(*                                                                         *)
(* Threads are identified by pairs <<c, k>>: <<c, k>> with k >= 0 is the   *)
(* ping_worker thread of task k of coordinator c, <<c, -1>> is the thread  *)
(* that runs coordinator c >= 1, and <<0, -1>> is the main thread, which   *)
(* runs coordinator 0 itself in the single-subnet mode (main.c:399).        *)
(***************************************************************************)
EXTENDS Integers, Sequences, FiniteSets, TLC

(***************************************************************************)
(* Program constants (main.c:19-23 and the literals of the code).          *)
(***************************************************************************)
MAX_PING_THREADS == 128
IP_STR_LEN == 16
CMD_LEN == 64
CORE_MULTIPLIER == 4
DEFAULT_THREADS == 64
HOST_MIN == 1
HOST_MAX == 254
PROGRESS_EVERY == 50
BASE_MAX_LEN == 15
CMD_FIXED_LEN == 32
CAMPAIGN_SUBNET_LEN == 11
FIRST_HOST == 1
\* MAX_SUBNET_THREADS as the source has it (main.c:20); the scheduler of the
\* model runs with the scaled MAX_SUBNET_THREADS below.
SUBNET_THREADS_CAP == 16

\* The value of memory that was allocated and never written (aligned_alloc,
\* malloc): every read of it is an arbitrary value.
UNINIT == -1

(***************************************************************************)
(* Bounds of the model.                                                    *)
(***************************************************************************)
\* The longest host range of a single-subnet scan is MaxSpan + 1 hosts.
MaxSpan == 4
\* The number of pthread_create / allocation failures injected in one run:
\* MaxFail, and DeepMaxFail where a campaign is explored with more hosts than
\* a batch holds.
MaxFail == 2
DeepMaxFail == 1
\* MAX_SUBNET_THREADS is 16 in the source (main.c:20); the model scales it
\* down, and with it the subnet tables of the campaign modes.
MAX_SUBNET_THREADS == 2
\* The last host of every subnet of a campaign is 254 in the source
\* (main.c:256); the model scales it down: LAST_HOST where every campaign
\* mode is explored, DEEP_LAST_HOST where one mode is explored with more
\* hosts than a batch holds.
LAST_HOST == 2
DEEP_LAST_HOST == 5
\* The subnets of the full-range mode: 256 in the source (main.c:381).
FullCount == 3
\* The subnets of the quick mode: 4 in the source (main.c:464).
QuickCount == 2
\* The limits are computed for CPU counts -MinCores .. MaxCores and for lists
\* of 1 .. MaxCount subnets.
MinCores == 2
MaxCores == 40
MaxCount == 20
\* The longest scan whose progress notifications are counted has
\* PROGRESS_EVERY + ProgressSpan hosts.
ProgressSpan == 2

NoTid == <<-1, -1>>
MainTid == <<0, -1>>

VARIABLES
  choice,        \* the menu choice read by main (main.c:416)
  base_len,      \* strlen of the subnet base read by main (main.c:438)
  start_in,      \* the start host read by main (main.c:444)
  end_in,        \* the end host read by main (main.c:450)
  cores,         \* what get_nprocs() returns (main.c:62)
  reach,         \* the hosts the probe mechanism finds reachable
  last_host,     \* the last host of each subnet of a campaign (main.c:256)
  max_fail,      \* how many allocations and thread creations may fail
  mainPc,        \* where the main thread is
  sched,         \* the locals of scan_subnets_parallel
  co,            \* the coordinators: c -> the locals of subnet_worker
  total_hosts_scanned,
  total_responders,
  subnets_scanned,
  active_ping_threads,
  final,         \* the counters as the campaign driver loaded them
  nfail,         \* failures injected so far
  crashed        \* the process was killed by an invalid pthread_join

vars == <<choice, base_len, start_in, end_in, cores, reach, last_host,
          max_fail, mainPc, sched, co,
          total_hosts_scanned, total_responders, subnets_scanned,
          active_ping_threads, final, nfail, crashed>>

inputs ==
  <<choice, base_len, start_in, end_in, cores, reach, last_host, max_fail>>
counters == <<total_hosts_scanned, total_responders, subnets_scanned>>

Min(a, b) == IF a < b THEN a ELSE b

Max(a, b) == IF a > b THEN a ELSE b

\* The subnet tables of scan_all_common_private_networks_parallel: 15 class C
\* subnets, 16 class B, 16 class A and localhost (main.c:286-299, 326).
PhaseCounts ==
  <<MAX_SUBNET_THREADS - 1, MAX_SUBNET_THREADS, MAX_SUBNET_THREADS, 1>>

RECURSIVE SumTo(_, _)
SumTo(seq, n) == IF n = 0 THEN 0 ELSE seq[n] + SumTo(seq, n - 1)

\* The coordinators of a run are 0 .. MaxCo: 0 is the one main runs itself.
MaxCo == Max(SumTo(PhaseCounts, Len(PhaseCounts)), Max(FullCount, QuickCount))

CoIds == 0 .. MaxCo

\* No coordinator of the model has more tasks than this.
MaxTasks == Max(MaxSpan + 1, Max(LAST_HOST, DEEP_LAST_HOST))

(***************************************************************************)
(* get_optimal_thread_count (main.c:61-65) and its clamp (main.c:135-137). *)
(***************************************************************************)
get_optimal_thread_count(n) ==
  IF n > 0 THEN n * CORE_MULTIPLIER ELSE DEFAULT_THREADS

\* Mutant of PingThreads: the clamp of main.c:136-137 is missing.
PingThreadsUnclamped(n) == get_optimal_thread_count(n)

PingThreads(n) ==
  IF get_optimal_thread_count(n) > MAX_PING_THREADS
    THEN MAX_PING_THREADS
    ELSE get_optimal_thread_count(n)

(***************************************************************************)
(* snprintf(tasks[idx].ip, 16, "%s.%d", subnet, i) (main.c:168-172): the   *)
(* length it reports, and whether the code accepts it.                     *)
(***************************************************************************)
Digits(n) == IF n < 10 THEN 1 ELSE IF n < 100 THEN 2 ELSE 3

IpLen(len, host) == len + 1 + Digits(host)

FormatOk(len, host) == IpLen(len, host) < IP_STR_LEN

(***************************************************************************)
(* snprintf(cmd, 64, "ping -c 1 -W 1 %s > /dev/null 2>&1", ip)             *)
(* (main.c:108-110).                                                       *)
(***************************************************************************)
CmdOk(iplen) == CMD_FIXED_LEN + iplen < CMD_LEN

(***************************************************************************)
(* The locals of one subnet_worker call.                                   *)
(***************************************************************************)
IdleCo ==
  [pc |-> "none", subnet_len |-> 0, start_host |-> 0, end_host |-> 0,
   total |-> 0, ping_threads |-> 0, i |-> 0, idx |-> 0, batch |-> 0,
   j |-> 0, k |-> 0, responders |-> 0, result |-> 0, wait |-> NoTid,
   reaped |-> FALSE,
   threads |-> <<>>, tasks |-> <<>>, ppc |-> <<>>, disp |-> <<>>,
   progress |-> 0, batches |-> 0]

\* main.c:393-399 and main.c:254-260: the Subnet Task handed to subnet_worker.
StartCo(len, s, e) ==
  [IdleCo EXCEPT !.pc = "alloc", !.subnet_len = len, !.start_host = s,
                 !.end_host = e]


Host(r, k) == r.start_host + k

\* The for-loop heads of subnet_worker: the batching loop (main.c:161-162) and
\* the collecting loop (main.c:199).
TallyHead(r) ==
  IF r.k < r.total THEN [r EXCEPT !.pc = "tally"]
                   ELSE [r EXCEPT !.pc = "add_hosts"]

\* Mutant of LoopHead: the batching loop stops one host early.
LoopHeadStopsEarly(r) ==
  IF r.i < r.end_host
    THEN [r EXCEPT !.pc = "fill", !.batch = 0]
    ELSE TallyHead([r EXCEPT !.k = 0])

LoopHead(r) ==
  IF r.i <= r.end_host
    THEN [r EXCEPT !.pc = "fill", !.batch = 0]
    ELSE TallyHead([r EXCEPT !.k = 0])

\* Mutant of FillMore: the batch takes one probe more than ping_threads.
FillMoreOneTooMany(r) == r.batch <= r.ping_threads /\ r.i <= r.end_host

\* The condition of the batch-filling loop (main.c:166).
FillMore(r) == r.batch < r.ping_threads /\ r.i <= r.end_host

\* ++batch, ++i, ++idx (main.c:167), then the loop condition; when it fails
\* the join loop starts at j = 0 (main.c:187).
FillAdvance(r) ==
  LET n == [r EXCEPT !.batch = @ + 1, !.i = @ + 1, !.idx = @ + 1]
  IN IF FillMore(n) THEN n
     ELSE [n EXCEPT !.pc = "join", !.j = 0, !.batches = @ + 1]

\* The progress indicator (main.c:192-195).
ProgressDue(r) == r.idx % PROGRESS_EVERY = 0

\* ++j (main.c:187); after the last join the progress check and the head of
\* the batching loop.
JoinAdvance(r) ==
  LET n == [r EXCEPT !.j = @ + 1, !.wait = NoTid]
  IN IF n.j < n.batch THEN n
     ELSE LoopHead(IF ProgressDue(n) THEN [n EXCEPT !.progress = @ + 1]
                                     ELSE n)

\* The task as the batch-filling loop leaves it (main.c:168-183):
\* fmt = the address was formatted, made = pthread_create succeeded.
TaskAfterFill(t, fmt, made) ==
  IF ~fmt THEN t
  ELSE IF made THEN [alive |-> 0, processed |-> 0]
  ELSE [alive |-> 0, processed |-> 1]

(***************************************************************************)
(* subnet_worker, main.c:126-157: the sizes and the two allocations.       *)
(***************************************************************************)
CoAlloc(c) ==
  /\ ~crashed
  /\ co[c].pc = "alloc"
  /\ LET r == co[c]
         total == r.end_host - r.start_host + 1
         pt == PingThreads(cores)
     IN \/ /\ nfail < max_fail
           /\ nfail' = nfail + 1
           /\ co' = [co EXCEPT ![c] =
                       [r EXCEPT !.pc = "failed", !.total = total,
                                 !.ping_threads = pt, !.result = 0]]
        \/ /\ nfail' = nfail
           /\ co' = [co EXCEPT ![c] = LoopHead(
                       [r EXCEPT !.total = total, !.ping_threads = pt,
                                 !.i = r.start_host, !.idx = 0,
                                 !.responders = 0,
                                 !.tasks = [x \in 0 .. total - 1 |->
                                   [alive |-> UNINIT, processed |-> UNINIT]],
                                 !.threads = [x \in 0 .. Min(pt, total) - 1
                                                |-> UNINIT],
                                 !.ppc = [x \in 0 .. total - 1 |-> "none"],
                                 !.disp = [x \in 0 .. total - 1 |-> 0]])]
  /\ UNCHANGED <<inputs, final, mainPc, sched, counters, active_ping_threads, crashed>>

(***************************************************************************)
(* One iteration of the batch-filling loop, main.c:166-184.                *)
(***************************************************************************)
CoFill(c) ==
  /\ ~crashed
  /\ co[c].pc = "fill"
  /\ LET r == co[c]
         fmt == FormatOk(r.subnet_len, r.i)
     IN \E made \in BOOLEAN :
          /\ ~fmt => ~made
          /\ (fmt /\ ~made) => nfail < max_fail
          /\ nfail' = IF fmt /\ ~made THEN nfail + 1 ELSE nfail
          /\ co' = [co EXCEPT ![c] = FillAdvance(
               [r EXCEPT !.tasks[r.idx] = TaskAfterFill(@, fmt, made),
                         !.threads[r.batch] = IF made THEN r.idx ELSE @,
                         !.ppc[r.idx] = IF made THEN "start" ELSE @,
                         !.disp[r.idx] = IF made THEN @ + 1 ELSE @])]
  /\ UNCHANGED <<inputs, final, mainPc, sched, counters, active_ping_threads, crashed>>

(***************************************************************************)
(* ping_worker, main.c:101-123, in two steps: the increment of             *)
(* active_ping_threads (main.c:105), and the probe with the stores of      *)
(* alive and processed, the decrement and the return (main.c:108-122).     *)
(* Nothing reads active_ping_threads, and processed is read by nobody, so  *)
(* no thread can tell the stores of the second step apart.                 *)
(***************************************************************************)
PingStart(c, k) ==
  /\ ~crashed
  /\ k \in DOMAIN co[c].ppc
  /\ co[c].ppc[k] = "start"
  /\ co' = [co EXCEPT ![c].ppc[k] = "run"]
  /\ active_ping_threads' = active_ping_threads + 1
  /\ UNCHANGED <<inputs, final, mainPc, sched, counters, nfail, crashed>>

\* system(cmd) returns 0 exactly for the reachable hosts (main.c:117-118).
ProbeResult(r, k) == IF Host(r, k) \in reach THEN 1 ELSE 0

\* The task as ping_worker leaves it (main.c:110-119).
TaskAfterPing(r, k) ==
  IF CmdOk(IpLen(r.subnet_len, Host(r, k)))
    THEN [alive |-> ProbeResult(r, k), processed |-> 1]
    ELSE [alive |-> 0, processed |-> 1]

PingRun(c, k) ==
  /\ ~crashed
  /\ k \in DOMAIN co[c].ppc
  /\ co[c].ppc[k] = "run"
  /\ co' = [co EXCEPT ![c].tasks[k] = TaskAfterPing(co[c], k),
                      ![c].ppc[k] = "exit"]
  /\ active_ping_threads' = active_ping_threads - 1
  /\ UNCHANGED <<inputs, final, mainPc, sched, counters, nfail, crashed>>

(***************************************************************************)
(* Threads and pthread_join.  A join on threads[j] is valid when the slot  *)
(* was written by pthread_create in the current batch and the thread has   *)
(* not been joined.  Any other join is undefined (POSIX): the slot holds   *)
(* garbage or the id of a thread joined earlier, and thread ids are        *)
(* reused, so the call may fail at once, kill the process, or act on any   *)
(* other thread of the process that has not been joined.  A thread that    *)
(* is being joined by one caller makes a second caller's pthread_join      *)
(* fail at once (EINVAL).  A coordinator whose pc is "join" is either      *)
(* about to call pthread_join or blocked inside it.                        *)
(***************************************************************************)
TState(t) ==
  LET r == co[t[1]]
  IN IF t[2] >= 0
       THEN IF t[2] \in DOMAIN r.ppc THEN r.ppc[t[2]] ELSE "none"
     ELSE IF t[1] = 0 \/ r.pc = "none" THEN "none"
     ELSE IF r.reaped THEN "joined"
     ELSE IF r.pc \in {"done", "failed"} THEN "exit"
     ELSE "live"

Tids == {t \in CoIds \X (-1 .. MaxTasks - 1) : TState(t) # "none"}

Registered(t) == sched.wait = t \/ \E c \in CoIds : co[c].wait = t

\* The slot the join loop is at was written in this batch (main.c:177).
SlotValid(r) == r.threads[r.j] = r.idx - r.batch + r.j

AliasTargets(self) ==
  {t \in Tids : /\ t # self
                /\ TState(t) # "joined"
                /\ ~Registered(t)}

Reaped(f, t) ==
  IF t[2] >= 0 THEN [f EXCEPT ![t[1]].ppc[t[2]] = "joined"]
               ELSE [f EXCEPT ![t[1]].reaped = TRUE]

SelfTid(c) == <<c, -1>>

\* The slot holds no thread of this batch, or one that was joined already.
SlotUnjoinable(r) ==
  IF SlotValid(r) THEN r.ppc[r.threads[r.j]] = "joined" ELSE TRUE

(***************************************************************************)
(* pthread_join(threads[j]) in the join loop of subnet_worker,             *)
(* main.c:187-189.                                                         *)
(***************************************************************************)
\* The valid join: it returns once the probe thread has ended.
CoJoin(c) ==
  /\ ~crashed
  /\ co[c].pc = "join"
  /\ LET r == co[c] IN
       /\ r.wait = NoTid
       /\ SlotValid(r)
       /\ r.ppc[r.threads[r.j]] = "exit"
       /\ co' = [co EXCEPT ![c] =
                   JoinAdvance([r EXCEPT !.ppc[r.threads[r.j]] = "joined"])]
  /\ UNCHANGED <<inputs, final, mainPc, sched, counters, active_ping_threads, nfail,
                 crashed>>

\* The valid join of a thread another caller is already joining: EINVAL.
CoJoinBusy(c) ==
  /\ ~crashed
  /\ co[c].pc = "join"
  /\ LET r == co[c] IN
       /\ r.wait = NoTid
       /\ SlotValid(r)
       /\ r.ppc[r.threads[r.j]] # "joined"
       /\ Registered(<<c, r.threads[r.j]>>)
       /\ co' = [co EXCEPT ![c] = JoinAdvance(r)]
  /\ UNCHANGED <<inputs, final, mainPc, sched, counters, active_ping_threads, nfail,
                 crashed>>

\* The join of a slot that holds no thread of this batch, or a thread that
\* was joined already.
CoJoinInvalid(c) ==
  /\ ~crashed
  /\ co[c].pc = "join"
  /\ LET r == co[c] IN
       /\ r.wait = NoTid
       /\ SlotUnjoinable(r)
       /\ \/ /\ co' = [co EXCEPT ![c] = JoinAdvance(r)]
             /\ UNCHANGED crashed
          \/ /\ crashed' = TRUE
             /\ UNCHANGED co
          \/ /\ \E t \in AliasTargets(SelfTid(c)) :
                  co' = [co EXCEPT ![c].wait = t]
             /\ UNCHANGED crashed
  /\ UNCHANGED <<inputs, final, mainPc, sched, counters, active_ping_threads, nfail>>

\* The invalid join that acts on another thread returns when that thread has
\* ended.
CoJoinAlias(c) ==
  /\ ~crashed
  /\ co[c].pc = "join"
  /\ LET r == co[c] IN
       /\ r.wait # NoTid
       /\ TState(r.wait) \in {"exit", "joined"}
       /\ co' = LET f == [co EXCEPT ![c] = JoinAdvance(r)]
                IN IF TState(r.wait) = "exit" THEN Reaped(f, r.wait) ELSE f
  /\ UNCHANGED <<inputs, final, mainPc, sched, counters, active_ping_threads, nfail,
                 crashed>>

(***************************************************************************)
(* The collecting loop, main.c:199-205: one atomic_load of alive.          *)
(***************************************************************************)
\* The truth values an int read from memory can have.
Truth(v) == IF v = UNINIT THEN BOOLEAN ELSE {v # 0}

CoTally(c) ==
  /\ ~crashed
  /\ co[c].pc = "tally"
  /\ LET r == co[c] IN
       \E b \in Truth(r.tasks[r.k].alive) :
         co' = [co EXCEPT ![c] = TallyHead(
                  [r EXCEPT !.responders = IF b THEN @ + 1 ELSE @,
                            !.k = @ + 1])]
  /\ UNCHANGED <<inputs, final, mainPc, sched, counters, active_ping_threads, nfail,
                 crashed>>

(***************************************************************************)
(* The three atomic_fetch_add of main.c:216-218, and the return.           *)
(***************************************************************************)
\* Mutant of CoAddHosts: the hosts are counted as end_host - start_host.
CoAddHostsOneShort(c) ==
  /\ ~crashed
  /\ co[c].pc = "add_hosts"
  /\ total_hosts_scanned' = total_hosts_scanned + co[c].total - 1
  /\ co' = [co EXCEPT ![c].pc = "add_resp"]
  /\ UNCHANGED <<inputs, final, mainPc, sched, total_responders, subnets_scanned,
                 active_ping_threads, nfail, crashed>>

CoAddHosts(c) ==
  /\ ~crashed
  /\ co[c].pc = "add_hosts"
  /\ total_hosts_scanned' = total_hosts_scanned + co[c].total
  /\ co' = [co EXCEPT ![c].pc = "add_resp"]
  /\ UNCHANGED <<inputs, final, mainPc, sched, total_responders, subnets_scanned,
                 active_ping_threads, nfail, crashed>>

CoAddResponders(c) ==
  /\ ~crashed
  /\ co[c].pc = "add_resp"
  /\ total_responders' = total_responders + co[c].responders
  /\ co' = [co EXCEPT ![c].pc = "add_subnets"]
  /\ UNCHANGED <<inputs, final, mainPc, sched, total_hosts_scanned, subnets_scanned,
                 active_ping_threads, nfail, crashed>>

CoAddSubnets(c) ==
  /\ ~crashed
  /\ co[c].pc = "add_subnets"
  /\ subnets_scanned' = subnets_scanned + 1
  /\ co' = [co EXCEPT ![c].pc = "done", ![c].result = co[c].responders]
  /\ UNCHANGED <<inputs, final, mainPc, sched, total_hosts_scanned, total_responders,
                 active_ping_threads, nfail, crashed>>

(***************************************************************************)
(* scan_subnets_parallel, main.c:228-276.  The coordinator of tasks[i] of  *)
(* the call is coordinator base + i + 1.                                   *)
(***************************************************************************)
IdleSched ==
  [pc |-> "none", phase |-> 0, base |-> 0, count |-> 0, subnet_threads |-> 0,
   i |-> 0, j |-> 0, batch_size |-> 0, threads |-> <<>>, wait |-> NoTid,
   batches |-> 0]

\* The call: main.c:282, 327, 381, 464.
StartSched(phase, base, count) ==
  [IdleSched EXCEPT !.pc = "alloc", !.phase = phase, !.base = base,
                    !.count = count]

\* main.c:235, for a list of count subnets and the limit cap.
SubnetLimit(count, cap) == IF count < cap THEN count ELSE cap

SubnetThreads(count) == SubnetLimit(count, MAX_SUBNET_THREADS)

\* main.c:249-250.
BatchSize(s) ==
  IF s.count - s.i < s.subnet_threads THEN s.count - s.i
                                      ELSE s.subnet_threads

\* The head of the batch loop (main.c:248-250).
SchedLoopHead(s) ==
  IF s.i < s.count
    THEN [s EXCEPT !.pc = "create", !.batch_size = BatchSize(s), !.j = 0,
                   !.batches = @ + 1]
    ELSE [s EXCEPT !.pc = "ret"]

\* ++j, ++i (main.c:253), then the join loop from j = 0 (main.c:267).
CreateAdvance(s) ==
  LET n == [s EXCEPT !.j = @ + 1, !.i = @ + 1]
  IN IF n.j < n.batch_size THEN n ELSE [n EXCEPT !.pc = "join", !.j = 0]

\* ++j (main.c:267), and after the last join the head of the batch loop.
SchedJoinAdvance(s) ==
  LET n == [s EXCEPT !.j = @ + 1, !.wait = NoTid]
  IN IF n.j < n.batch_size THEN n ELSE SchedLoopHead(n)

\* The coordinator of the batch position the join loop is at.
SlotCo(s) == s.base + (s.i - s.batch_size + s.j) + 1

SchedSlotValid(s) == s.threads[s.j] = SlotCo(s)

\* main.c:230-245: the two allocations.
SchedAlloc ==
  /\ ~crashed
  /\ sched.pc = "alloc"
  /\ \/ /\ nfail < max_fail
        /\ nfail' = nfail + 1
        /\ sched' = [sched EXCEPT !.pc = "ret"]
     \/ /\ nfail' = nfail
        /\ sched' = SchedLoopHead(
             [sched EXCEPT !.subnet_threads = SubnetThreads(sched.count),
                           !.i = 0,
                           !.threads = [x \in 0 .. SubnetThreads(sched.count) - 1
                                          |-> UNINIT]])
  /\ UNCHANGED <<inputs, final, mainPc, co, counters, active_ping_threads,
                 crashed>>

\* One iteration of the loop that creates the batch, main.c:253-264.
SchedCreate ==
  /\ ~crashed
  /\ sched.pc = "create"
  /\ LET c == sched.base + sched.i + 1
     IN \/ /\ nfail' = nfail
           /\ sched' = CreateAdvance([sched EXCEPT !.threads[sched.j] = c])
           /\ co' = [co EXCEPT ![c] =
                       StartCo(CAMPAIGN_SUBNET_LEN, FIRST_HOST, last_host)]
        \/ /\ nfail < max_fail
           /\ nfail' = nfail + 1
           /\ sched' = CreateAdvance(sched)
           /\ UNCHANGED co
  /\ UNCHANGED <<inputs, final, mainPc, counters, active_ping_threads,
                 crashed>>

(***************************************************************************)
(* pthread_join(threads[j]) in the join loop of scan_subnets_parallel,     *)
(* main.c:267-269.                                                         *)
(***************************************************************************)
SchedJoin ==
  /\ ~crashed
  /\ sched.pc = "join"
  /\ sched.wait = NoTid
  /\ SchedSlotValid(sched)
  /\ TState(SelfTid(SlotCo(sched))) = "exit"
  /\ sched' = SchedJoinAdvance(sched)
  /\ co' = Reaped(co, SelfTid(SlotCo(sched)))
  /\ UNCHANGED <<inputs, final, mainPc, counters, active_ping_threads, nfail,
                 crashed>>

SchedJoinBusy ==
  /\ ~crashed
  /\ sched.pc = "join"
  /\ sched.wait = NoTid
  /\ SchedSlotValid(sched)
  /\ TState(SelfTid(SlotCo(sched))) # "joined"
  /\ Registered(SelfTid(SlotCo(sched)))
  /\ sched' = SchedJoinAdvance(sched)
  /\ UNCHANGED <<inputs, final, mainPc, co, counters, active_ping_threads,
                 nfail, crashed>>

SchedJoinInvalid ==
  /\ ~crashed
  /\ sched.pc = "join"
  /\ sched.wait = NoTid
  /\ IF SchedSlotValid(sched)
       THEN TState(SelfTid(SlotCo(sched))) = "joined"
       ELSE TRUE
  /\ \/ /\ sched' = SchedJoinAdvance(sched)
        /\ UNCHANGED crashed
     \/ /\ crashed' = TRUE
        /\ UNCHANGED sched
     \/ /\ \E t \in AliasTargets(MainTid) : sched' = [sched EXCEPT !.wait = t]
        /\ UNCHANGED crashed
  /\ UNCHANGED <<inputs, final, mainPc, co, counters, active_ping_threads,
                 nfail>>

SchedJoinAlias ==
  /\ ~crashed
  /\ sched.pc = "join"
  /\ sched.wait # NoTid
  /\ TState(sched.wait) \in {"exit", "joined"}
  /\ sched' = SchedJoinAdvance(sched)
  /\ co' = IF TState(sched.wait) = "exit" THEN Reaped(co, sched.wait) ELSE co
  /\ UNCHANGED <<inputs, final, mainPc, counters, active_ping_threads, nfail,
                 crashed>>

(***************************************************************************)
(* main, main.c:402-474, and the campaign drivers.                         *)
(***************************************************************************)
\* main.c:444 and main.c:450.
ValidStart(s) == ~(s < HOST_MIN \/ s > HOST_MAX)

\* Mutant of ValidEnd: the check of end < start is missing.
ValidEndNoOrder(s, e) == ~(e < HOST_MIN \/ e > HOST_MAX)

ValidEnd(s, e) == ~(e < HOST_MIN \/ e > HOST_MAX \/ e < s)

\* case 3 (main.c:433-458) with scan_single_subnet_parallel (main.c:391-400).
MainSingle ==
  /\ ~crashed
  /\ mainPc = "menu"
  /\ choice = 3
  /\ IF ValidStart(start_in) /\ ValidEnd(start_in, end_in)
       THEN /\ co' = [co EXCEPT ![0] = StartCo(base_len, start_in, end_in)]
            /\ mainPc' = "single"
       ELSE /\ mainPc' = "rejected"
            /\ UNCHANGED co
  /\ UNCHANGED <<inputs, final, sched, counters, active_ping_threads, nfail,
                 crashed>>

\* subnet_worker(&task) returns (main.c:399, 456-457, 473).
MainSingleReturn ==
  /\ ~crashed
  /\ mainPc = "single"
  /\ co[0].pc \in {"done", "failed"}
  /\ mainPc' = "exit"
  /\ UNCHANGED <<inputs, final, sched, co, counters, active_ping_threads,
                 nfail, crashed>>

\* The default case (main.c:468-470).
MainInvalidChoice ==
  /\ ~crashed
  /\ mainPc = "menu"
  /\ choice \notin 1 .. 4
  /\ mainPc' = "rejected"
  /\ UNCHANGED <<inputs, final, sched, co, counters, active_ping_threads,
                 nfail, crashed>>

\* case 1: scan_all_common_private_networks_parallel resets the counters
\* (main.c:312-315) and scans the first table (main.c:318).
MainAllCommon ==
  /\ ~crashed
  /\ mainPc = "menu"
  /\ choice = 1
  /\ total_hosts_scanned' = 0
  /\ total_responders' = 0
  /\ subnets_scanned' = 0
  /\ sched' = StartSched(1, 0, PhaseCounts[1])
  /\ mainPc' = "scan"
  /\ UNCHANGED <<inputs, final, co, active_ping_threads, nfail, crashed>>

\* A driver that clears the three counters before each table of case 1, not
\* only before the first one.
MainNextPhaseReset ==
  /\ ~crashed
  /\ mainPc = "scan"
  /\ choice = 1
  /\ sched.pc = "ret"
  /\ IF sched.phase < Len(PhaseCounts)
       THEN /\ sched' = StartSched(sched.phase + 1,
                                   SumTo(PhaseCounts, sched.phase),
                                   PhaseCounts[sched.phase + 1])
            /\ total_hosts_scanned' = 0
            /\ total_responders' = 0
            /\ subnets_scanned' = 0
            /\ UNCHANGED mainPc
       ELSE /\ mainPc' = "load_subnets"
            /\ UNCHANGED <<sched, counters>>
  /\ UNCHANGED <<inputs, final, co, active_ping_threads, nfail, crashed>>

\* The next table of case 1 (main.c:320-327); after the last one the driver
\* goes on to load the counters.
MainNextPhase ==
  /\ ~crashed
  /\ mainPc = "scan"
  /\ choice = 1
  /\ sched.pc = "ret"
  /\ IF sched.phase < Len(PhaseCounts)
       THEN /\ sched' = StartSched(sched.phase + 1,
                                   SumTo(PhaseCounts, sched.phase),
                                   PhaseCounts[sched.phase + 1])
            /\ UNCHANGED mainPc
       ELSE /\ mainPc' = "load_subnets"
            /\ UNCHANGED sched
  /\ UNCHANGED <<inputs, final, co, counters, active_ping_threads, nfail,
                 crashed>>

\* The three atomic_load of main.c:333-335.
MainLoadSubnets ==
  /\ ~crashed
  /\ mainPc = "load_subnets"
  /\ final' = [final EXCEPT !.subnets = subnets_scanned]
  /\ mainPc' = "load_hosts"
  /\ UNCHANGED <<inputs, sched, co, counters, active_ping_threads, nfail,
                 crashed>>

MainLoadHosts ==
  /\ ~crashed
  /\ mainPc = "load_hosts"
  /\ final' = [final EXCEPT !.hosts = total_hosts_scanned]
  /\ mainPc' = "load_responders"
  /\ UNCHANGED <<inputs, sched, co, counters, active_ping_threads, nfail,
                 crashed>>

MainLoadResponders ==
  /\ ~crashed
  /\ mainPc = "load_responders"
  /\ final' = [final EXCEPT !.responders = total_responders]
  /\ mainPc' = "exit"
  /\ UNCHANGED <<inputs, sched, co, counters, active_ping_threads, nfail,
                 crashed>>

\* case 2: scan_full_class_c_range_parallel (main.c:354-388); the table is
\* built with malloc, which may fail (main.c:361-375).
MainFullRange ==
  /\ ~crashed
  /\ mainPc = "menu"
  /\ choice = 2
  /\ \/ /\ nfail < max_fail
        /\ nfail' = nfail + 1
        /\ mainPc' = "exit"
        /\ UNCHANGED sched
     \/ /\ nfail' = nfail
        /\ sched' = StartSched(1, 0, FullCount)
        /\ mainPc' = "scan"
  /\ UNCHANGED <<inputs, final, co, counters, active_ping_threads, crashed>>

\* case 4: the quick scan (main.c:460-466).
MainQuick ==
  /\ ~crashed
  /\ mainPc = "menu"
  /\ choice = 4
  /\ sched' = StartSched(1, 0, QuickCount)
  /\ mainPc' = "scan"
  /\ UNCHANGED <<inputs, final, co, counters, active_ping_threads, nfail,
                 crashed>>

\* scan_subnets_parallel returns to case 2 or case 4 (main.c:381-388, 464-473).
MainScanReturn ==
  /\ ~crashed
  /\ mainPc = "scan"
  /\ choice \in {2, 4}
  /\ sched.pc = "ret"
  /\ mainPc' = "exit"
  /\ UNCHANGED <<inputs, final, sched, co, counters, active_ping_threads,
                 nfail, crashed>>

(***************************************************************************)
(* The initial states: the globals of main.c:51-54 and the inputs.         *)
(***************************************************************************)
InitState ==
  /\ mainPc = "menu"
  /\ sched = IdleSched
  /\ co = [c \in CoIds |-> IdleCo]
  /\ total_hosts_scanned = 0
  /\ total_responders = 0
  /\ subnets_scanned = 0
  /\ active_ping_threads = 0
  /\ final = [subnets |-> 0, hosts |-> 0, responders |-> 0]
  /\ nfail = 0
  /\ crashed = FALSE

\* A fixed reachable set: no host, every host, the odd hosts or the even ones.
ReachSets(lo, hi) ==
  {{}, lo .. hi, {h \in lo .. hi : h % 2 = 1}, {h \in lo .. hi : h % 2 = 0}}

\* The single-subnet mode: a base of 11, 13 or 14 characters, and ranges
\* that start at a one-, two- or three-digit host.
InitSingle ==
  /\ InitState
  /\ choice = 3
  /\ base_len \in {l \in {11, 13, 14} : l <= BASE_MAX_LEN}
  /\ start_in \in {0, 1, 8, 253, 255}
  /\ end_in \in (start_in - 1) .. (start_in + MaxSpan)
  /\ cores \in {0, 1}
  /\ reach \in ReachSets(start_in, end_in)
  /\ last_host = HOST_MAX
  /\ max_fail = MaxFail

\* The campaign modes.
InitCampaign ==
  /\ InitState
  /\ choice \in {1, 2, 4, 5}
  /\ base_len = 0
  /\ start_in = 0
  /\ end_in = 0
  /\ cores \in {1}
  /\ reach \in {{}, {FIRST_HOST}}
  /\ last_host = LAST_HOST
  /\ max_fail = MaxFail

\* The full-range mode with more hosts in a subnet than a batch holds.
InitDeep ==
  /\ InitState
  /\ choice = 2
  /\ base_len = 0
  /\ start_in = 0
  /\ end_in = 0
  /\ cores = 1
  /\ reach = {FIRST_HOST}
  /\ last_host = DEEP_LAST_HOST
  /\ max_fail = DeepMaxFail

Coordinator(c) ==
  \/ CoAlloc(c)
  \/ CoFill(c)
  \/ CoJoin(c)
  \/ CoJoinInvalid(c)
  \/ CoJoinAlias(c)
  \/ CoTally(c)
  \/ CoAddHosts(c)
  \/ CoAddResponders(c)
  \/ CoAddSubnets(c)

Probe(c, k) == PingStart(c, k) \/ PingRun(c, k)

NextSingle ==
  \/ MainSingle
  \/ MainSingleReturn
  \/ Coordinator(0)
  \/ \E k \in 0 .. MaxTasks - 1 : Probe(0, k)

NextCampaign ==
  \/ MainInvalidChoice
  \/ MainAllCommon
  \/ MainNextPhase
  \/ MainLoadSubnets
  \/ MainLoadHosts
  \/ MainLoadResponders
  \/ MainFullRange
  \/ MainQuick
  \/ MainScanReturn
  \/ SchedAlloc
  \/ SchedCreate
  \/ SchedJoin
  \/ SchedJoinBusy
  \/ SchedJoinInvalid
  \/ SchedJoinAlias
  \/ \E c \in CoIds \ {0} :
       \/ Coordinator(c)
       \/ CoJoinBusy(c)
       \/ \E k \in 0 .. MaxTasks - 1 : Probe(c, k)

NextDeep ==
  \/ MainFullRange
  \/ MainScanReturn
  \/ SchedAlloc
  \/ SchedCreate
  \/ SchedJoin
  \/ SchedJoinBusy
  \/ SchedJoinInvalid
  \/ SchedJoinAlias
  \/ \E c \in CoIds \ {0} :
       \/ Coordinator(c)
       \/ CoJoinBusy(c)
       \/ \E k \in 0 .. MaxTasks - 1 : Probe(c, k)

\* The single-subnet mode.
Spec == InitSingle /\ [][NextSingle]_vars

SpecDeep == InitDeep /\ [][NextDeep]_vars

\* The campaign modes.
SpecCampaign == InitCampaign /\ [][NextCampaign]_vars

(***************************************************************************)
(* The campaign of case 1 under fair scheduling: the main thread, every    *)
(* coordinator thread and every probe thread that can take a step          *)
(* eventually takes one; in particular every probe ends.                   *)
(***************************************************************************)
InitLive ==
  /\ InitState
  /\ choice = 1
  /\ base_len = 0
  /\ start_in = 0
  /\ end_in = 0
  /\ cores = 1
  /\ reach = {FIRST_HOST}
  /\ last_host = LAST_HOST
  /\ max_fail = DeepMaxFail

\* The steps of the main thread in case 1.
MainThread ==
  \/ MainAllCommon
  \/ MainNextPhase
  \/ MainLoadSubnets
  \/ MainLoadHosts
  \/ MainLoadResponders
  \/ SchedAlloc
  \/ SchedCreate
  \/ SchedJoin
  \/ SchedJoinBusy
  \/ SchedJoinInvalid
  \/ SchedJoinAlias

\* The steps of the thread of coordinator c.
CoThread(c) == Coordinator(c) \/ CoJoinBusy(c)

NextLive ==
  \/ MainThread
  \/ \E c \in CoIds \ {0} :
       \/ CoThread(c)
       \/ \E k \in 0 .. MaxTasks - 1 : Probe(c, k)

Fairness ==
  /\ WF_vars(MainThread)
  /\ \A c \in CoIds \ {0} :
       /\ WF_vars(CoThread(c))
       /\ \A k \in 0 .. MaxTasks - 1 : WF_vars(Probe(c, k))

SpecLive == InitLive /\ [][NextLive]_vars /\ Fairness

(***************************************************************************)
(* The two concurrency limits as functions of their inputs: ping_threads   *)
(* of a coordinator for every CPU count, and subnet_threads of a scheduler *)
(* call for every length of the subnet list, with the limit of the source. *)
(***************************************************************************)
InitClamp ==
  /\ mainPc = "menu"
  /\ sched \in {[IdleSched EXCEPT !.count = n] : n \in 1 .. MaxCount}
  /\ co = [c \in CoIds |-> IdleCo]
  /\ total_hosts_scanned = 0
  /\ total_responders = 0
  /\ subnets_scanned = 0
  /\ active_ping_threads = 0
  /\ final = [subnets |-> 0, hosts |-> 0, responders |-> 0]
  /\ nfail = 0
  /\ crashed = FALSE
  /\ choice = 0
  /\ base_len = 0
  /\ start_in = 0
  /\ end_in = 0
  /\ cores \in (0 - MinCores) .. MaxCores
  /\ reach = {}
  /\ last_host = HOST_MAX
  /\ max_fail = 0

\* main.c:135-137.
ApplyPingClamp ==
  /\ co[0].pc = "none"
  /\ co' = [co EXCEPT ![0].pc = "applied",
                      ![0].ping_threads = PingThreads(cores)]
  /\ UNCHANGED <<inputs, final, mainPc, sched, counters, active_ping_threads,
                 nfail, crashed>>

\* main.c:235.
ApplySubnetClamp ==
  /\ sched.pc = "none"
  /\ sched' = [sched EXCEPT
                 !.pc = "applied",
                 !.subnet_threads = SubnetLimit(sched.count,
                                                SUBNET_THREADS_CAP)]
  /\ UNCHANGED <<inputs, final, mainPc, co, counters, active_ping_threads,
                 nfail, crashed>>

NextClamp == ApplyPingClamp \/ ApplySubnetClamp

SpecClamp == InitClamp /\ [][NextClamp]_vars

(***************************************************************************)
(* A single-subnet scan that is long enough to pass a multiple of          *)
(* PROGRESS_EVERY hosts, on a machine with one core, where no allocation   *)
(* and no thread creation fails.                                           *)
(***************************************************************************)
InitProgress ==
  /\ InitState
  /\ choice = 3
  /\ base_len = CAMPAIGN_SUBNET_LEN
  /\ start_in = HOST_MIN
  /\ end_in \in (PROGRESS_EVERY - 1) .. (PROGRESS_EVERY + ProgressSpan)
  /\ cores = 1
  /\ reach = {}
  /\ last_host = HOST_MAX
  /\ max_fail = 0

\* Every join of such a scan is valid.
NextProgress ==
  \/ MainSingle
  \/ MainSingleReturn
  \/ CoAlloc(0)
  \/ CoFill(0)
  \/ CoJoin(0)
  \/ CoTally(0)
  \/ CoAddHosts(0)
  \/ CoAddResponders(0)
  \/ CoAddSubnets(0)
  \/ \E k \in 0 .. (PROGRESS_EVERY + ProgressSpan) : Probe(0, k)

SpecProgress == InitProgress /\ [][NextProgress]_vars

(***************************************************************************)
(* The claims.                                                             *)
(***************************************************************************)
\* The batching loop of a subnet_worker call is over.
Finished(r) ==
  r.pc \in {"tally", "add_hosts", "add_resp", "add_subnets", "done"}

Started(r) == r.pc \in {"fill", "join"} \/ Finished(r)

\* The tasks of r that were dispatched (pthread_create succeeded).
Dispatched(r) == {k \in DOMAIN r.disp : r.disp[k] > 0}

\* The tasks of r whose address the code formats.
Formatted(r) == {k \in DOMAIN r.disp : FormatOk(r.subnet_len, Host(r, k))}

\* C1 as stated: when the batching loop of the single-subnet scan is over,
\* it has used one task per address of the range, every one of them was
\* dispatched exactly once, and the tally is at most the size of the range.
C1_EveryAddressDispatched ==
  LET r == co[0]
  IN Finished(r) =>
       /\ r.idx = r.total
       /\ \A k \in DOMAIN r.disp : r.disp[k] = 1
       /\ r.responders <= r.total

\* C1, amended: task k of the scan is the task of address start + k, the
\* loop ends after exactly end - start + 1 tasks, no task is dispatched
\* twice, a task whose address cannot be formatted is not dispatched, every
\* other task is dispatched exactly once unless its pthread_create failed,
\* and the tally never exceeds end - start + 1.
C1_EveryAddressOnce ==
  LET r == co[0]
  IN /\ Started(r) =>
          /\ r.total = r.end_host - r.start_host + 1
          /\ r.i = r.start_host + r.idx
          /\ r.idx <= r.total
          /\ r.responders <= r.total
          /\ \A k \in DOMAIN r.disp :
               /\ r.disp[k] <= 1
               /\ k >= r.idx => r.disp[k] = 0
          /\ Dispatched(r) \subseteq Formatted(r)
          /\ Cardinality({k \in Formatted(r) \ Dispatched(r) : k < r.idx})
               <= nfail
     /\ Finished(r) => r.idx = r.total /\ r.i = r.end_host + 1

\* C1: a scan of two batches is over, with a task that was dispatched and a
\* task that was not.
C1_Witness ==
  LET r == co[0]
  IN /\ r.pc = "done"
     /\ r.batches >= 2
     /\ \E k \in DOMAIN r.disp : r.disp[k] = 1
     /\ \E k \in DOMAIN r.disp : r.disp[k] = 0

\* C2: a batch of probes that is being joined holds at least one and at most
\* ping_threads tasks, and fewer than ping_threads only when it is the last
\* batch of the range; while a batch is filled it holds fewer than
\* ping_threads tasks; a batch of subnets holds at least one and at most
\* subnet_threads <= MAX_SUBNET_THREADS subnets, fewer than subnet_threads
\* only when it is the last one, and never a subnet beyond the list.
C2_BatchSizes ==
  /\ \A c \in CoIds :
       LET r == co[c]
       IN /\ r.pc = "fill" => r.batch < r.ping_threads /\ r.i <= r.end_host
          /\ r.pc = "join" =>
               /\ 1 <= r.batch
               /\ r.batch <= r.ping_threads
               /\ r.batch < r.ping_threads => r.i > r.end_host
  /\ sched.pc \in {"create", "join"} =>
       /\ 1 <= sched.batch_size
       /\ sched.batch_size <= sched.subnet_threads
       /\ sched.subnet_threads <= MAX_SUBNET_THREADS
       /\ sched.i <= sched.count
       /\ sched.pc = "join" /\ sched.batch_size < sched.subnet_threads
            => sched.i = sched.count

\* C2: the second batch of subnets holds one subnet, whose coordinator joins
\* its second batch of probes, which holds one probe.
C2_Witness ==
  /\ sched.pc = "join"
  /\ sched.batches = 2
  /\ sched.batch_size = 1
  /\ sched.subnet_threads = MAX_SUBNET_THREADS
  /\ \E c \in CoIds :
       /\ co[c].pc = "join"
       /\ co[c].batches = 2
       /\ co[c].batch = 1
       /\ co[c].ping_threads = 4

\* A probe thread that was created and has not returned.
Running(r, k) == r.ppc[k] \in {"start", "run"}

\* A coordinator that was started and has not returned.
Active(c) == co[c].pc \notin {"none", "done", "failed"}

\* C3: in every subnet scan, while a probe of one batch is still running no
\* probe of a later batch has been dispatched.
C3_HostBarrier ==
  \A c \in CoIds :
    LET r == co[c]
    IN \A k1, k2 \in DOMAIN r.ppc :
         (k1 \div r.ping_threads < k2 \div r.ping_threads
            /\ r.ppc[k2] # "none")
           => ~Running(r, k1)

\* The first coordinator of the batch of subnets the scheduler is at.
BatchFirstCo ==
  sched.base + 1
    + (IF sched.pc = "create" THEN sched.i - sched.j
                              ELSE sched.i - sched.batch_size)

\* C4: while a coordinator of one batch of subnets has not finished, no
\* coordinator of a later batch has been dispatched.
C4_SubnetBarrier ==
  sched.pc \in {"create", "join"} =>
    \A c1, c2 \in CoIds \ {0} :
      (c1 < BatchFirstCo /\ BatchFirstCo <= c2 /\ co[c2].pc # "none")
        => ~Active(c1)

\* C5: at most C_s * C_h probes are in flight, and at most C_s coordinators
\* run at the same time.
C5_ConcurrencyBound ==
  sched.pc \in {"create", "join"} =>
    /\ active_ping_threads <= sched.subnet_threads * PingThreads(cores)
    /\ Cardinality({c \in CoIds \ {0} : Active(c)}) <= sched.subnet_threads

\* The hosts of the range of r that the probe mechanism reaches.
ReachableIn(r) == reach \cap (r.start_host .. r.end_host)

\* C6: when no allocation and no thread creation has failed, a finished
\* single-subnet scan has counted the reachable hosts of its range, and has
\* added the size of the range, that count and 1 to the three counters.
C6_ScanResult ==
  LET r == co[0]
  IN (r.pc = "done" /\ nfail = 0) =>
       /\ r.result = Cardinality(ReachableIn(r))
       /\ total_hosts_scanned = r.end_host - r.start_host + 1
       /\ total_responders = Cardinality(ReachableIn(r))
       /\ subnets_scanned = 1

\* The coordinators that have finished their scan.
Done == {c \in CoIds \ {0} : co[c].pc = "done"}

\* C7: when the campaign of all common private networks has finished,
\* total_hosts_scanned is the number of hosts of a subnet times the number of
\* subnets whose scan finished, which is every subnet of the four tables
\* when no allocation and no thread creation failed; the driver loaded that
\* value.
C7_NoDoubleCounting ==
  (choice = 1 /\ mainPc = "exit") =>
    /\ total_hosts_scanned = (last_host - FIRST_HOST + 1) * Cardinality(Done)
    /\ final.hosts = total_hosts_scanned
    /\ nfail = 0 => Cardinality(Done) = SumTo(PhaseCounts, Len(PhaseCounts))

\* C7: the campaign has finished, every subnet of the four tables was
\* scanned, and a subnet has more than one host.
C7_Witness ==
  /\ choice = 1
  /\ mainPc = "exit"
  /\ Cardinality(Done) = SumTo(PhaseCounts, Len(PhaseCounts))
  /\ total_hosts_scanned > Cardinality(Done)

\* The responders a coordinator finds when it reads every task after its
\* probe has returned: the reachable hosts among the tasks it dispatched.
Probed(r) == {k \in Dispatched(r) : Host(r, k) \in reach}

RECURSIVE SumProbed(_)
SumProbed(cs) ==
  IF cs = {} THEN 0
  ELSE LET c == CHOOSE x \in cs : TRUE
       IN Cardinality(Probed(co[c])) + SumProbed(cs \ {c})

\* C8: when a campaign has finished, the three counters are what the subnet
\* list, the reachable set and the failed creations determine, whatever the
\* interleaving was.
C8_Deterministic ==
  (choice \in {1, 2, 4} /\ mainPc = "exit") =>
    /\ total_hosts_scanned = (last_host - FIRST_HOST + 1) * Cardinality(Done)
    /\ subnets_scanned = Cardinality(Done)
    /\ total_responders = SumProbed(Done)

\* C9: when the collecting loop reads alive of a task, processed of that task
\* is 1.
C9_ReadAfterComplete ==
  \A c \in CoIds :
    co[c].pc = "tally" => co[c].tasks[co[c].k].processed = 1

\* C10: a task whose address could not be formatted or whose thread could not
\* be created is left unreachable and completed.
C10_FailedTaskCompleted ==
  \A c \in CoIds :
    LET r == co[c]
    IN Started(r) =>
         \A k \in DOMAIN r.tasks :
           (k < r.idx /\ k \notin Dispatched(r))
             => r.tasks[k] = [alive |-> 0, processed |-> 1]

\* The coordinators of the scheduler call that is under way.
PhaseCos == (sched.base + 1) .. (sched.base + sched.count)

\* C11: a failed allocation or a failed creation of a subnet thread stays
\* local: the process is not killed, a coordinator that could not allocate
\* reports zero responders, and when the scheduler returns every subnet of
\* its list whose thread was created has been scanned to its end or has
\* failed to allocate.
C11_FailureLocal ==
  /\ ~crashed
  /\ \A c \in CoIds : co[c].pc = "failed" => co[c].result = 0
  /\ (sched.pc = "ret" /\ sched.batches > 0) =>
       \A c \in PhaseCos : ~Active(c)

\* The range read by main is one the checks of main.c:444 and 450 refuse.
InvalidRange ==
  \/ start_in < HOST_MIN
  \/ start_in > HOST_MAX
  \/ end_in < HOST_MIN
  \/ end_in > HOST_MAX
  \/ end_in < start_in

\* C12: with a start or an end outside 1 .. 254, or an end below the start,
\* the single-subnet mode never starts a coordinator, never creates a probe
\* and never changes a counter, and main only goes from the menu to its
\* failure exit.
C12_InvalidRangeRejected ==
  (choice = 3 /\ InvalidRange) =>
    /\ mainPc \in {"menu", "rejected"}
    /\ co = [c \in CoIds |-> IdleCo]
    /\ sched = IdleSched
    /\ total_hosts_scanned = 0
    /\ total_responders = 0
    /\ subnets_scanned = 0
    /\ active_ping_threads = 0

\* C12: main has left with failure on a range whose bounds are both in
\* 1 .. 254 and whose end is below its start.
C12_Witness ==
  /\ choice = 3
  /\ mainPc = "rejected"
  /\ start_in \in HOST_MIN .. HOST_MAX
  /\ end_in \in HOST_MIN .. HOST_MAX
  /\ end_in < start_in

\* C13: a campaign that has started eventually reaches the end of its final
\* report.
C13_CampaignFinishes == (mainPc = "scan") ~> (mainPc = "exit")

\* C14: while the campaign driver loads the three counters, and after it
\* has, no coordinator and no probe of the campaign is still running.
C14_ReadAtQuiescence ==
  (choice = 1
     /\ mainPc \in {"load_subnets", "load_hosts", "load_responders", "exit"})
    => \A c \in CoIds \ {0} :
         /\ ~Active(c)
         /\ \A k \in DOMAIN co[c].ppc : ~Running(co[c], k)

\* C15 as stated: at the start of every call of the subnet scheduler the
\* three counters are zero.
C15_ResetEachPhase ==
  sched.pc = "alloc" =>
    /\ total_hosts_scanned = 0
    /\ total_responders = 0
    /\ subnets_scanned = 0

\* C15, amended: the counters are zero at the start of the first scheduler
\* call of every campaign; at the start of a later call of case 1 they have
\* not been reset: they hold what the coordinators that finished in the
\* earlier phases have added.
C15_ResetOncePerCampaign ==
  sched.pc = "alloc" =>
    IF sched.phase = 1
      THEN /\ total_hosts_scanned = 0
           /\ total_responders = 0
           /\ subnets_scanned = 0
      ELSE /\ choice = 1
           /\ subnets_scanned = Cardinality(Done)
           /\ total_hosts_scanned
                = (last_host - FIRST_HOST + 1) * Cardinality(Done)
           /\ Done \subseteq 1 .. sched.base

\* C15: the second phase of case 1 starts with counters that are not zero.
C15_Witness ==
  /\ choice = 1
  /\ sched.pc = "alloc"
  /\ sched.phase = 2
  /\ subnets_scanned > 0
  /\ total_hosts_scanned > 0

\* C16: for every CPU count the limit of a coordinator is at least 1 and at
\* most 128, and is 4 * cores clamped to 128 for a positive count and 64
\* otherwise; for every list of n >= 1 subnets the limit of the scheduler is
\* min(n, 16), at least 1 and at most 16.
C16_LimitsClamped ==
  /\ co[0].pc = "applied" =>
       /\ 1 <= co[0].ping_threads
       /\ co[0].ping_threads <= 128
       /\ co[0].ping_threads
            = (IF cores > 0 THEN Min(4 * cores, 128) ELSE 64)
  /\ sched.pc = "applied" =>
       /\ 1 <= sched.subnet_threads
       /\ sched.subnet_threads <= 16
       /\ sched.subnet_threads = Min(sched.count, 16)

\* C16: both limits were computed where the clamps act: more than 32 cores
\* and more than 16 subnets.
C16_Witness ==
  /\ co[0].pc = "applied"
  /\ 4 * cores > 128
  /\ co[0].ping_threads = 128
  /\ sched.pc = "applied"
  /\ sched.count > 16
  /\ sched.subnet_threads = 16

\* C17: while a coordinator is at its three counter increments, none of the
\* probes it dispatched is still running.
C17_UpdateAfterCompletion ==
  \A c \in CoIds :
    co[c].pc \in {"add_hosts", "add_resp", "add_subnets"} =>
      \A k \in DOMAIN co[c].ppc : ~Running(co[c], k)

\* C18: when a subnet scan is over, it has emitted at least one progress
\* notification for every multiple of 50 that is at most the size of its
\* range.
C18_ProgressCadence ==
  \A c \in CoIds :
    Finished(co[c]) => co[c].progress >= co[c].total \div PROGRESS_EVERY

\* C19: a coordinator that is about to call pthread_join is at a slot that
\* its pthread_create wrote in the current batch and whose thread has not
\* been joined, and so is the subnet scheduler.
C19_JoinHandleValid ==
  /\ \A c \in CoIds :
       (co[c].pc = "join" /\ co[c].wait = NoTid) => ~SlotUnjoinable(co[c])
  /\ (sched.pc = "join" /\ sched.wait = NoTid) =>
       /\ SchedSlotValid(sched)
       /\ TState(SelfTid(SlotCo(sched))) # "joined"

\* C20: in every state of a campaign total_responders is at least 0 and at
\* most total_hosts_scanned, and the hosts of a subnet times
\* subnets_scanned is at most total_hosts_scanned.
C20_CountersConsistent ==
  /\ 0 <= total_responders
  /\ total_responders <= total_hosts_scanned
  /\ (last_host - FIRST_HOST + 1) * subnets_scanned <= total_hosts_scanned

\* C20: a coordinator has added its hosts and its responders and not yet
\* its subnet, after another subnet was counted.
C20_Witness ==
  /\ subnets_scanned >= 1
  /\ total_responders >= 1
  /\ \E c \in CoIds : co[c].pc = "add_subnets"
  /\ (last_host - FIRST_HOST + 1) * subnets_scanned < total_hosts_scanned

====
